---- MODULE Spec2Model ----
(***************************************************************************)
(* A model of the Rust-Shell command interpreter: the command-line parser  *)
(* (src/src/parser.rs), the pipeline executor (src/src/executor.rs) and    *)
(* the read-parse-execute loop (src/src/main.rs).                          *)
(*                                                                         *)
(* Text is modelled at the level the code works on it: a string is a       *)
(* sequence of one-character strings, and split('|'), trim and             *)
(* split_whitespace are computed character by character.                  *)
(***************************************************************************)
EXTENDS Integers, Sequences, FiniteSets, TLC

VARIABLES
    \* ---- parser side: the line under construction and what parsing gave
    words,          \* the words of the input line
    layout,         \* how the words are laid out as text (the whitespace)
    presult,        \* result of parse_pipeline_commands(line)
    sresult,        \* result of parse_single_command(line)
    \* ---- the interpreter loop of main
    mpc,            \* position of main: reading, inside the call, stopped
    out,            \* what main did with the current line, in order
    \* ---- executor side: one call of execute_pipeline
    cmds,           \* parsed_commands: the argument of the call
    i,              \* the loop index of `for (i, parsed_cmd)` (0-based)
    pc,             \* position inside execute_pipeline
    children,       \* Vec<Child>: stage indices of the handles held
    previous_command_stdout, \* Option<ChildStdout>: None or <<stage>>
    builder,        \* the stdio configured on command_builder so far
    proc,           \* per stage: the process the call spawned, if any
    log,            \* what the call did so far, in order: files opened,
                    \* diagnostics printed, processes spawned, killed, waited
    fs              \* the files that exist: path |-> the records written

pvars == <<words, layout, presult, sresult, mpc, out>>
evars == <<cmds, i, pc, children, previous_command_stdout, builder, proc,
           log, fs>>
vars == <<words, layout, presult, sresult, mpc, out, cmds, i, pc, children,
          previous_command_stdout, builder, proc, log, fs>>

(***************************************************************************)
(* Bounds of the model.                                                    *)
(***************************************************************************)
MaxOps == 3         \* redirection-operator words in a pipe-free line
MaxWords == 7       \* words of a pipe-free line
MaxPipes == 2       \* '|' words in a line
MaxPipeWords == 5   \* words of a line that holds a '|'
MaxLayoutWords == 4 \* words of a line laid out other than by single spaces
MaxStages == 3      \* stages of an executed pipeline
MaxRedirects == 2   \* redirections set in an executed pipeline
MaxLineWords == 4   \* words of a line typed at the prompt
MaxLinePipes == 1   \* '|' words in a line typed at the prompt
MaxLineOps == 1     \* redirection-operator words in a line typed at the prompt
MaxPaddedWords == 2 \* words of a typed line that is entered with extra spaces
MaxContent == 2     \* records in a file

(***************************************************************************)
(* Option<T>: None is the empty sequence, Some(x) the one-element one.     *)
(***************************************************************************)
None == <<>>
Some(x) == <<x>>
Unwrap(o) == o[1]

(***************************************************************************)
(* Characters and tokens.                                                  *)
(***************************************************************************)
IsWhitespace(c) == c = " "

OpIn == <<"<">>
OpOut == <<">">>
OpAppend == <<">", ">">>
OpErr == <<"2", ">">>
RedirOps == {OpIn, OpOut, OpAppend, OpErr}
PipeWord == <<"|">>
FillWords == {<<"a">>, <<"b">>}

(***************************************************************************)
(* str::split('|'): the pieces between the separators, empty ones kept;    *)
(* a string without '|' gives one piece, the empty string gives [""].      *)
(***************************************************************************)
PushChar(c, rest) ==
    IF c = "|" THEN << <<>> >> \o rest
    ELSE << <<c>> \o Head(rest) >> \o Tail(rest)

RECURSIVE SplitPipe(_)
SplitPipe(s) ==
    IF s = <<>> THEN << <<>> >>
    ELSE PushChar(Head(s), SplitPipe(Tail(s)))

(***************************************************************************)
(* str::trim: leading and trailing whitespace removed.                     *)
(***************************************************************************)
RECURSIVE TrimStart(_)
TrimStart(s) ==
    IF s # <<>> /\ IsWhitespace(Head(s)) THEN TrimStart(Tail(s)) ELSE s

RECURSIVE TrimEnd(_)
TrimEnd(s) ==
    IF s # <<>> /\ IsWhitespace(s[Len(s)])
    THEN TrimEnd(SubSeq(s, 1, Len(s) - 1)) ELSE s

Trim(s) == TrimEnd(TrimStart(s))

(***************************************************************************)
(* str::split_whitespace: the maximal runs of non-whitespace characters.   *)
(***************************************************************************)
RECURSIVE TakeWord(_)
TakeWord(s) ==
    IF s = <<>> \/ IsWhitespace(Head(s)) THEN <<>>
    ELSE <<Head(s)>> \o TakeWord(Tail(s))

RECURSIVE SplitWhitespace(_)
SplitWhitespace(s) ==
    IF s = <<>> THEN <<>>
    ELSE IF IsWhitespace(Head(s)) THEN SplitWhitespace(Tail(s))
    ELSE LET w == TakeWord(s) IN
         <<w>> \o SplitWhitespace(SubSeq(s, Len(w) + 1, Len(s)))

(***************************************************************************)
(* Result<ParsedCommand, String> and Result<Vec<ParsedCommand>, String>.   *)
(* The error strings of the code are kept apart by what they say.          *)
(***************************************************************************)
ErrEmptyCommand == "empty command segment"
ErrEmptyStage == "empty command after pipe"
ErrMissingTarget(op) ==
    CASE op = OpIn -> "input redirect lacks a file name (<)"
      [] op = OpOut -> "output redirect lacks a file name (>)"
      [] op = OpAppend -> "output redirect lacks a file name (>>)"
      [] op = OpErr -> "stderr redirect lacks a file name (2>)"

NoCommand == [name |-> <<>>, args |-> <<>>, stdin_redirect |-> None,
              stdout_redirect |-> None, stderr_redirect |-> None]

OkCommand(c) == [ok |-> TRUE, err |-> "", cmd |-> c]
ErrCommand(e) == [ok |-> FALSE, err |-> e, cmd |-> NoCommand]
OkPipeline(cs) == [ok |-> TRUE, err |-> "", cmds |-> cs]
ErrPipeline(e) == [ok |-> FALSE, err |-> e, cmds |-> <<>>]

(***************************************************************************)
(* One arm of the match in parse_single_command's while loop: what a       *)
(* redirection operator with a following token assigns.                    *)
(***************************************************************************)
\* An assignment that keeps a redirect already recorded.
AssignRedirectFirstWins(c, op, path) ==
    CASE op = OpIn ->
           IF c.stdin_redirect # None THEN c
           ELSE [c EXCEPT !.stdin_redirect = Some(path)]
      [] op = OpOut ->
           IF c.stdout_redirect # None THEN c
           ELSE [c EXCEPT !.stdout_redirect = Some(<<path, FALSE>>)]
      [] op = OpAppend ->
           IF c.stdout_redirect # None THEN c
           ELSE [c EXCEPT !.stdout_redirect = Some(<<path, TRUE>>)]
      [] op = OpErr ->
           IF c.stderr_redirect # None THEN c
           ELSE [c EXCEPT !.stderr_redirect = Some(path)]

AssignRedirect(c, op, path) ==
    CASE op = OpIn -> [c EXCEPT !.stdin_redirect = Some(path)]
      [] op = OpOut -> [c EXCEPT !.stdout_redirect = Some(<<path, FALSE>>)]
      [] op = OpAppend -> [c EXCEPT !.stdout_redirect = Some(<<path, TRUE>>)]
      [] op = OpErr -> [c EXCEPT !.stderr_redirect = Some(path)]

(***************************************************************************)
(* The else arm of `if i + 1 < parts.len()`: the operator is the last      *)
(* token, and the function returns the operator's error.                   *)
(***************************************************************************)
\* An else arm that leaves the operator out and goes on.
MissingTargetDropped(c, op) == OkCommand(c)

MissingTarget(c, op) == ErrCommand(ErrMissingTarget(op))

(***************************************************************************)
(* The default arm: args.push(parts[i].to_string()).                       *)
(***************************************************************************)
\* A push at the front of args.
PushArgFront(c, tok) == [c EXCEPT !.args = <<tok>> \o @]

PushArg(c, tok) == [c EXCEPT !.args = Append(@, tok)]

(***************************************************************************)
(* The while loop of parse_single_command, from index k (1-based here,     *)
(* the code's i is k - 1) with the fields assigned so far in c.            *)
(***************************************************************************)
RECURSIVE ParseLoop(_, _, _)
ParseLoop(parts, k, c) ==
    IF k > Len(parts) THEN OkCommand(c)
    ELSE IF parts[k] \in RedirOps
         THEN IF k + 1 <= Len(parts)
              THEN ParseLoop(parts, k + 2, AssignRedirect(c, parts[k], parts[k + 1]))
              ELSE MissingTarget(c, parts[k])
         ELSE ParseLoop(parts, k + 1, PushArg(c, parts[k]))

parse_single_command(command_segment) ==
    LET parts == SplitWhitespace(command_segment) IN
    IF parts = <<>> THEN ErrCommand(ErrEmptyCommand)
    ELSE ParseLoop(parts, 2, [NoCommand EXCEPT !.name = parts[1]])

(***************************************************************************)
(* The for loop of parse_pipeline_commands over the segments from index k, *)
(* with the commands pushed so far.                                        *)
(***************************************************************************)
\* An emptiness test that forgets to trim.
IsEmptySegmentUntrimmed(segment) == segment = <<>>

IsEmptySegment(segment) == Trim(segment) = <<>>

\* A `?` that reports every failure of a segment as an empty stage.
PropagateAsEmptyStage(r) == ErrPipeline(ErrEmptyStage)

Propagate(r) == ErrPipeline(r.err)

RECURSIVE PipelineLoop(_, _, _)
PipelineLoop(segments, k, commands) ==
    IF k > Len(segments) THEN OkPipeline(commands)
    ELSE IF IsEmptySegment(segments[k]) THEN ErrPipeline(ErrEmptyStage)
    ELSE LET r == parse_single_command(Trim(segments[k])) IN
         IF r.ok THEN PipelineLoop(segments, k + 1, Append(commands, r.cmd))
         ELSE Propagate(r)

parse_pipeline_commands(command_line) ==
    PipelineLoop(SplitPipe(command_line), 1, <<>>)

(***************************************************************************)
(* The input line: the words given so far, laid out as text.  "tight" puts *)
(* nothing between two words, "single" one space, "padded" two spaces and  *)
(* a space before and after the line.                                      *)
(***************************************************************************)
Layouts == {"tight", "single", "padded"}

RECURSIVE Join(_, _)
Join(ws, sp) ==
    IF ws = <<>> THEN <<>>
    ELSE IF Len(ws) = 1 THEN ws[1]
    ELSE ws[1] \o sp \o Join(Tail(ws), sp)

LineOf(ws, l) ==
    CASE l = "tight" -> Join(ws, <<>>)
      [] l = "single" -> Join(ws, <<" ">>)
      [] l = "padded" -> <<" ">> \o Join(ws, <<" ", " ">>) \o <<" ">>

Line == LineOf(words, layout)

NumOf(ws, S) == Cardinality({k \in 1..Len(ws) : ws[k] \in S})

InBounds(ws, l) ==
    /\ l # "single" => Len(ws) <= MaxLayoutWords
    /\ IF NumOf(ws, {PipeWord}) = 0
       THEN NumOf(ws, RedirOps) <= MaxOps /\ Len(ws) <= MaxWords
       ELSE NumOf(ws, {PipeWord}) <= MaxPipes /\ Len(ws) <= MaxPipeWords

(***************************************************************************)
(* The parser is applied to every line: parse_pipeline_commands as main    *)
(* does, and parse_single_command on the same text.                        *)
(***************************************************************************)
Parsed(ws, l) ==
    /\ presult = parse_pipeline_commands(LineOf(ws, l))
    /\ sresult = parse_single_command(LineOf(ws, l))

ParseWith(w) ==
    /\ InBounds(Append(words, w), layout)
    /\ words' = Append(words, w)
    /\ presult' = parse_pipeline_commands(LineOf(words', layout))
    /\ sresult' = parse_single_command(LineOf(words', layout))
    /\ UNCHANGED <<layout, mpc, out>>
    /\ UNCHANGED evars

ParseFill == \E w \in FillWords : ParseWith(w)
ParseOp == \E w \in RedirOps : ParseWith(w)
ParsePipe == ParseWith(PipeWord)

NoResult == [ok |-> FALSE, err |-> "not parsed", cmds |-> <<>>]
NoSingle == [ok |-> FALSE, err |-> "not parsed", cmd |-> NoCommand]

NewBuilder == [stdin |-> <<"inherit">>, stdout |-> <<"inherit">>,
               stderr |-> <<"inherit">>]

EIdle ==
    /\ cmds = <<>>
    /\ i = 0
    /\ pc = "idle"
    /\ children = <<>>
    /\ previous_command_stdout = None
    /\ builder = NewBuilder
    /\ proc = <<>>
    /\ log = <<>>

NoFiles == [p \in {} |-> <<>>]

ParserInit ==
    /\ words = <<>>
    /\ layout \in Layouts
    /\ Parsed(words, layout)
    /\ mpc = "read"
    /\ out = <<>>
    /\ EIdle
    /\ fs = NoFiles

ParserNext == ParseFill \/ ParseOp \/ ParsePipe

ParserSpec == ParserInit /\ [][ParserNext]_vars

(***************************************************************************)
(*                        The pipeline executor                            *)
(***************************************************************************)

(***************************************************************************)
(* The environment of one call: which files can be opened and which        *)
(* programs can be started.  The word "b" names a path that can neither be *)
(* read nor created (a path inside a directory that does not exist) and a  *)
(* program that is not installed; every other word is an installed program *)
(* and a path that can be created, and that can be read once it exists.    *)
(***************************************************************************)
BadWord == <<"b">>
CanRead(path) == path # BadWord /\ path \in DOMAIN fs
CanWrite(path) == path # BadWord
CanSpawn(name) == name # BadWord

(***************************************************************************)
(* Files.  A file holds the records written to it, in order.               *)
(*   File::create(path): the file is created, or emptied if it exists.     *)
(*   File::options().create(true).append(true).open(path): the file is     *)
(*   created if it does not exist and otherwise left as it is; every write *)
(*   through the handle goes to the end of the file.                       *)
(* A handle from File::create starts at offset 0 and writes from there.    *)
(***************************************************************************)
OldRecord == << <<"o", "l", "d">> >>
OldFiles == [p \in {<<"a">>} |-> <<OldRecord>>]
InitialFs == {NoFiles, OldFiles}

\* A create that is put off until the first write.
FileCreateLazy(f, path) == f

FileCreate(f, path) ==
    [p \in DOMAIN f \cup {path} |-> IF p = path THEN <<>> ELSE f[p]]

\* An append-open that empties the file like File::create does.
OpenAppendTruncating(f, path) ==
    [p \in DOMAIN f \cup {path} |-> IF p = path THEN <<>> ELSE f[p]]

OpenAppend(f, path) ==
    [p \in DOMAIN f \cup {path} |-> IF p \in DOMAIN f THEN f[p] ELSE <<>>]

OpenForWrite(f, path, mode) ==
    IF mode = "append" THEN OpenAppend(f, path) ELSE FileCreate(f, path)

WriteRecord(f, path, mode, rec) ==
    [f EXCEPT ![path] =
        IF mode = "append" THEN @ \o <<rec>>
        ELSE <<rec>> \o (IF @ = <<>> THEN <<>> ELSE Tail(@))]

(***************************************************************************)
(* What a program writes to its standard output before it exits: one       *)
(* record, its own argument vector (as `echo x` writes x).                 *)
(***************************************************************************)
Output(c) == <<c.name>> \o c.args

(***************************************************************************)
(* The pipelines handed to execute_pipeline: 1..MaxStages commands with at *)
(* most MaxRedirects redirections among them, pushed one by one onto the   *)
(* vector by the caller before the call.                                   *)
(***************************************************************************)
StageCmds ==
    [name : FillWords,
     args : {<<>>},
     stdin_redirect : {None} \cup {Some(w) : w \in FillWords},
     stdout_redirect : {None} \cup {Some(<<w, ap>>) : w \in FillWords, ap \in BOOLEAN},
     stderr_redirect : {None} \cup {Some(w) : w \in FillWords}]

NumRedirects(c) ==
    (IF c.stdin_redirect # None THEN 1 ELSE 0)
    + (IF c.stdout_redirect # None THEN 1 ELSE 0)
    + (IF c.stderr_redirect # None THEN 1 ELSE 0)

RECURSIVE TotalRedirects(_)
TotalRedirects(cs) ==
    IF cs = <<>> THEN 0 ELSE NumRedirects(Head(cs)) + TotalRedirects(Tail(cs))

N == Len(cmds)
Stages == 0..(N - 1)
Cmd(k) == cmds[k + 1]

NoProcess == [state |-> "none", stdin |-> <<"inherit">>,
              stdout |-> <<"inherit">>, stderr |-> <<"inherit">>]

(***************************************************************************)
(* Entries of the log.                                                     *)
(***************************************************************************)
Event(ev, stage, stream, subject, mode, ok) ==
    [ev |-> ev, stage |-> stage, stream |-> stream, subject |-> subject,
     mode |-> mode, ok |-> ok]
OpenEvent(stage, stream, path, mode, ok) ==
    Event("open", stage, stream, path, mode, ok)
DiagEvent(stage, stream, subject) ==
    Event("diag", stage, stream, subject, "", FALSE)
SpawnEvent(stage, name, ok) == Event("spawn", stage, "", name, "", ok)
KillEvent(stage) == Event("kill", stage, "", <<>>, "", TRUE)
WaitEvent(stage) == Event("wait", stage, "", <<>>, "", TRUE)

(***************************************************************************)
(* The cleanup of every failure arm:                                       *)
(*     for c in children.iter_mut() { let _ = c.kill(); }                  *)
(*     children.clear(); break;                                            *)
(* kill sends SIGKILL: a running child is dead once it is delivered; a     *)
(* child that has exited already stays as it is (the result is ignored).   *)
(***************************************************************************)
\* A cleanup that reaches only the child spawned last.
KillTargetsLastOnly(chs) == IF chs = <<>> THEN <<>> ELSE <<chs[Len(chs)]>>

KillTargets(chs) == chs

KillEvents(chs) == [k \in 1..Len(KillTargets(chs)) |-> KillEvent(KillTargets(chs)[k])]

Killed(p, chs) ==
    [j \in DOMAIN p |->
        IF (\E k \in 1..Len(KillTargets(chs)) : KillTargets(chs)[k] = j)
           /\ p[j].state = "running"
        THEN [p[j] EXCEPT !.state = "killed"]
        ELSE p[j]]

\* A failure arm that goes on with the next command instead of leaving the loop.
AfterFailureContinue(idx, n) == IF idx + 1 < n THEN "stdin" ELSE "wait"

AfterFailure(idx, n) == "wait"

\* A failure arm that kills first and reports afterwards.
AbortLogKillsFirst(events, kills) == kills \o events

\* eprintln!, then the kill loop.
AbortLog(events, kills) == events \o kills

\* A failure arm without children.clear().
ClearedNot(chs) == chs

\* children.clear()
Cleared(chs) == <<>>

\* `break` ends the loop body: command_builder, and every handle that was
\* moved into it, is dropped.
Abort(events) ==
    /\ log' = log \o AbortLog(events, KillEvents(children))
    /\ proc' = Killed(proc, children)
    /\ children' = Cleared(children)
    /\ pc' = AfterFailure(i, N)
    /\ i' = IF pc' = "wait" THEN i ELSE i + 1
    /\ builder' = NewBuilder

(***************************************************************************)
(* Standard input of stage i: the previous stage's pipe if there is one,   *)
(* else the first command's input file, else what the shell has.           *)
(***************************************************************************)
\* An input wiring that looks at the command's own redirect first.
StdinChoiceRedirectFirst(prev, idx, c) ==
    IF c.stdin_redirect # None THEN "file"
    ELSE IF prev # None THEN "pipe"
    ELSE "inherit"

StdinChoice(prev, idx, c) ==
    IF prev # None THEN "pipe"
    ELSE IF idx = 0 /\ c.stdin_redirect # None THEN "file"
    ELSE "inherit"

\* A read of the slot that leaves the handle in it.
TakenNot(prev) == prev

\* Option::take leaves None in the slot.
Taken(prev) == None

WireStdin ==
    /\ pc = "stdin"
    /\ previous_command_stdout' = Taken(previous_command_stdout)
    /\ UNCHANGED <<cmds, fs, pvars>>
    /\ LET c == Cmd(i)
           choice == StdinChoice(previous_command_stdout, i, c)
       IN
       CASE choice = "pipe" ->
              /\ builder' = [builder EXCEPT
                                !.stdin = <<"pipe", Unwrap(previous_command_stdout)>>]
              /\ pc' = "stdout"
              /\ UNCHANGED <<i, children, proc, log>>
         [] choice = "file" ->
              LET path == Unwrap(c.stdin_redirect) IN
              IF CanRead(path)
              THEN /\ builder' = [builder EXCEPT !.stdin = <<"file", path>>]
                   /\ log' = Append(log, OpenEvent(i, "stdin", path, "read", TRUE))
                   /\ pc' = "stdout"
                   /\ UNCHANGED <<i, children, proc>>
              ELSE Abort(<<OpenEvent(i, "stdin", path, "read", FALSE),
                           DiagEvent(i, "stdin", path)>>)
         [] choice = "inherit" ->
              /\ pc' = "stdout"
              /\ UNCHANGED <<i, children, proc, log, builder>>

(***************************************************************************)
(* Standard output of stage i: a pipe unless it is the last stage; the     *)
(* last stage writes to its output file, or to what the shell has.         *)
(***************************************************************************)
\* An output wiring that looks at the command's own redirect first.
StdoutChoiceRedirectFirst(idx, n, c) ==
    IF c.stdout_redirect # None THEN "file"
    ELSE IF idx < n - 1 THEN "piped"
    ELSE "inherit"

\* An output wiring whose last-stage test is off by one.
StdoutChoiceOffByOne(idx, n, c) ==
    IF idx < n THEN "piped"
    ELSE IF c.stdout_redirect # None THEN "file"
    ELSE "inherit"

StdoutChoice(idx, n, c) ==
    IF idx < n - 1 THEN "piped"
    ELSE IF c.stdout_redirect # None THEN "file"
    ELSE "inherit"

OpenMode(append) == IF append THEN "append" ELSE "truncate"

WireStdout ==
    /\ pc = "stdout"
    /\ UNCHANGED <<cmds, previous_command_stdout, pvars>>
    /\ LET c == Cmd(i)
           choice == StdoutChoice(i, N, c)
       IN
       CASE choice = "piped" ->
              /\ builder' = [builder EXCEPT !.stdout = <<"piped">>]
              /\ pc' = "stderr"
              /\ UNCHANGED <<i, children, proc, log, fs>>
         [] choice = "file" ->
              LET path == Unwrap(c.stdout_redirect)[1]
                  mode == OpenMode(Unwrap(c.stdout_redirect)[2])
              IN
              IF CanWrite(path)
              THEN /\ builder' = [builder EXCEPT !.stdout = <<"file", path, mode>>]
                   /\ fs' = OpenForWrite(fs, path, mode)
                   /\ log' = Append(log, OpenEvent(i, "stdout", path, mode, TRUE))
                   /\ pc' = "stderr"
                   /\ UNCHANGED <<i, children, proc>>
              ELSE /\ Abort(<<OpenEvent(i, "stdout", path, mode, FALSE),
                              DiagEvent(i, "stdout", path)>>)
                   /\ UNCHANGED fs
         [] choice = "inherit" ->
              /\ builder' = [builder EXCEPT !.stdout = <<"inherit">>]
              /\ pc' = "stderr"
              /\ UNCHANGED <<i, children, proc, log, fs>>

(***************************************************************************)
(* Standard error of stage i: its error file if it names one.              *)
(***************************************************************************)
\* An error wiring that honours the redirect of the last stage only.
StderrChoiceLastOnly(idx, n, c) ==
    IF idx = n - 1 /\ c.stderr_redirect # None THEN "file" ELSE "inherit"

StderrChoice(idx, n, c) ==
    IF c.stderr_redirect # None THEN "file" ELSE "inherit"

WireStderr ==
    /\ pc = "stderr"
    /\ UNCHANGED <<cmds, previous_command_stdout, pvars>>
    /\ LET c == Cmd(i)
           choice == StderrChoice(i, N, c)
       IN
       CASE choice = "file" ->
              LET path == Unwrap(c.stderr_redirect) IN
              IF CanWrite(path)
              THEN /\ builder' = [builder EXCEPT
                                     !.stderr = <<"file", path, "truncate">>]
                   /\ fs' = FileCreate(fs, path)
                   /\ log' = Append(log, OpenEvent(i, "stderr", path, "truncate", TRUE))
                   /\ pc' = "spawn"
                   /\ UNCHANGED <<i, children, proc>>
              ELSE /\ Abort(<<OpenEvent(i, "stderr", path, "truncate", FALSE),
                              DiagEvent(i, "stderr", path)>>)
                   /\ UNCHANGED fs
         [] choice = "inherit" ->
              /\ builder' = [builder EXCEPT !.stderr = <<"inherit">>]
              /\ pc' = "spawn"
              /\ UNCHANGED <<i, children, proc, log, fs>>

(***************************************************************************)
(* command_builder.spawn(): on success the child's stdout pipe, if it has  *)
(* one, becomes the next stage's input and the child joins `children`;     *)
(* then the loop goes to the next command, or ends.                        *)
(***************************************************************************)
TakeStdout(b, idx) == IF b.stdout = <<"piped">> THEN Some(idx) ELSE None

SpawnStage ==
    /\ pc = "spawn"
    /\ UNCHANGED <<cmds, fs, pvars>>
    /\ LET c == Cmd(i) IN
       IF CanSpawn(c.name)
       THEN /\ proc' = [proc EXCEPT ![i] = [state |-> "running",
                                           stdin |-> builder.stdin,
                                           stdout |-> builder.stdout,
                                           stderr |-> builder.stderr]]
            /\ LET taken == TakeStdout(builder, i) IN
               previous_command_stdout' =
                   IF taken # None THEN taken ELSE previous_command_stdout
            /\ children' = Append(children, i)
            /\ log' = Append(log, SpawnEvent(i, c.name, TRUE))
            /\ i' = i + 1
            /\ pc' = IF i + 1 < N THEN "stdin" ELSE "wait"
            /\ builder' = NewBuilder
       ELSE /\ Abort(<<SpawnEvent(i, c.name, FALSE), DiagEvent(i, "spawn", c.name)>>)
            /\ UNCHANGED previous_command_stdout

(***************************************************************************)
(* for mut child in children.drain(..) { let _ = child.wait(); }           *)
(* wait returns once the child has exited.                                 *)
(***************************************************************************)
\* A wait that returns at once, whether or not the child has exited.
HasExitedOrNot(p) == TRUE

HasExited(p) == p.state \in {"exited", "killed"}

WaitChild ==
    /\ pc = "wait"
    /\ children # <<>>
    /\ HasExited(proc[Head(children)])
    /\ proc' = [proc EXCEPT ![Head(children)].state = "reaped"]
    /\ children' = Tail(children)
    /\ log' = Append(log, WaitEvent(Head(children)))
    /\ UNCHANGED <<cmds, i, pc, previous_command_stdout, builder, fs, pvars>>

Return ==
    /\ pc = "wait"
    /\ children = <<>>
    /\ pc' = "done"
    /\ UNCHANGED <<cmds, i, children, previous_command_stdout, builder, proc,
                   log, fs, pvars>>

(***************************************************************************)
(* A spawned program ends on its own, at any time; what it wrote to its     *)
(* standard output is in the file by then, if that is a file.              *)
(***************************************************************************)
ChildExit ==
    /\ \E j \in DOMAIN proc :
          /\ proc[j].state = "running"
          /\ proc' = [proc EXCEPT ![j].state = "exited"]
          /\ fs' = IF proc[j].stdout[1] = "file"
                   THEN WriteRecord(fs, proc[j].stdout[2], proc[j].stdout[3],
                                    Output(Cmd(j)))
                   ELSE fs
    /\ UNCHANGED <<cmds, i, pc, children, previous_command_stdout, builder,
                   log, pvars>>

PIdle ==
    /\ words = <<>>
    /\ layout = "single"
    /\ presult = NoResult
    /\ sresult = NoSingle
    /\ mpc = "exec"
    /\ out = <<>>

(***************************************************************************)
(* The caller: one ParsedCommand pushed per stage, then the call.          *)
(***************************************************************************)
PushCommand ==
    /\ pc = "idle"
    /\ Len(cmds) < MaxStages
    /\ \E c \in StageCmds :
          /\ TotalRedirects(cmds) + NumRedirects(c) <= MaxRedirects
          /\ cmds' = Append(cmds, c)
    /\ UNCHANGED <<i, pc, children, previous_command_stdout, builder, proc,
                   log, fs, pvars>>

Call ==
    /\ pc = "idle"
    /\ cmds # <<>>
    /\ pc' = "stdin"
    /\ i' = 0
    /\ children' = <<>>
    /\ previous_command_stdout' = None
    /\ builder' = NewBuilder
    /\ proc' = [j \in 0..(Len(cmds) - 1) |-> NoProcess]
    /\ log' = <<>>
    /\ UNCHANGED <<cmds, fs, pvars>>

Init == PIdle /\ EIdle /\ fs \in InitialFs

Next ==
    \/ PushCommand
    \/ Call
    \/ WireStdin
    \/ WireStdout
    \/ WireStderr
    \/ SpawnStage
    \/ WaitChild
    \/ Return
    \/ ChildExit

Spec == Init /\ [][Next]_vars

(***************************************************************************)
(* The same under fair scheduling: execute_pipeline is sequential code, so *)
(* a step of it that can be taken is taken; and every program that was     *)
(* spawned ends at some time.                                              *)
(***************************************************************************)
ExecStep ==
    WireStdin \/ WireStdout \/ WireStderr \/ SpawnStage \/ WaitChild \/ Return

LiveSpec == Spec /\ WF_vars(ExecStep) /\ WF_vars(ChildExit)

(***************************************************************************)
(*                   The interpreter loop of main                          *)
(***************************************************************************)
ExitWord == <<"e", "x", "i", "t">>
CdWord == <<"c", "d">>
PwdWord == <<"p", "w", "d">>
BuiltinWords == {ExitWord, CdWord, PwdWord}

ReadErrors == {"Interrupted", "Eof", "Io"}

\* env::set_current_dir(path) fails for a directory that does not exist.
CanChdir(path) == path # BadWord

(***************************************************************************)
(* What main does with a line, in order: the history entry, the lines it   *)
(* prints on stdout and on stderr, the change of directory, the end of     *)
(* the loop.                                                               *)
(***************************************************************************)
MainEvent(ev, subject) == [ev |-> ev, subject |-> subject]
HistoryEvent(line) == MainEvent("history", line)
ParseDiagEvent(e) == MainEvent("parse error", e)
ExitEvent == MainEvent("println", "Exiting my_shell.")
CdDiagEvent(what) == MainEvent("cd error", what)
ChdirEvent(path) == MainEvent("chdir", path)
PwdEvent == MainEvent("println", "current dir")
PwdDiagEvent == MainEvent("pwd error", "")
ReadErrorEvent(e) == MainEvent("readline error", e)

(***************************************************************************)
(* The lines typed at the prompt: words added one by one by the line       *)
(* editor until the line is entered.  The first key of a new readline call *)
(* starts a new line; what the previous line left behind (its parse, what  *)
(* was printed for it, the locals of its execute_pipeline call) is gone.   *)
(***************************************************************************)
MainLayouts == {"single", "padded"}

LineInBounds(ws) ==
    /\ Len(ws) <= MaxLineWords
    /\ NumOf(ws, {PipeWord}) <= MaxLinePipes
    /\ NumOf(ws, RedirOps) <= MaxLineOps
    /\ NumOf(ws, BuiltinWords) <= 1

FsInBounds == \A p \in DOMAIN fs : Len(fs[p]) < MaxContent

Pending == presult = NoResult

BeginLine(ws) ==
    /\ words' = ws
    /\ layout' = "single"
    /\ presult' = NoResult
    /\ out' = <<>>
    /\ cmds' = <<>>
    /\ i' = 0
    /\ pc' = "idle"
    /\ children' = <<>>
    /\ previous_command_stdout' = None
    /\ builder' = NewBuilder
    /\ proc' = <<>>
    /\ log' = <<>>
    /\ UNCHANGED <<sresult, mpc, fs>>

Type(w) ==
    /\ mpc = "read"
    /\ FsInBounds
    /\ LET ws == IF Pending THEN Append(words, w) ELSE <<w>> IN
       /\ LineInBounds(ws)
       /\ BeginLine(ws)

TypeFill == \E w \in FillWords : Type(w)
TypeOp == \E w \in RedirOps : Type(w)
TypePipe == Type(PipeWord)
TypeBuiltin ==
    /\ IF Pending /\ words # <<>> THEN words[Len(words)] = PipeWord ELSE TRUE
    /\ \E w \in BuiltinWords : Type(w)

(***************************************************************************)
(* readline returns an error: Ctrl-C, Ctrl-D or a read failure.  Each arm  *)
(* prints a line and leaves the loop.                                      *)
(***************************************************************************)
ReadFail ==
    /\ mpc = "read"
    /\ \E e \in ReadErrors :
          /\ words' = <<>>
          /\ layout' = "single"
          /\ presult' = NoResult
          /\ out' = <<ReadErrorEvent(e)>>
          /\ mpc' = "stopped"
          /\ cmds' = <<>> /\ i' = 0 /\ pc' = "idle" /\ children' = <<>>
          /\ previous_command_stdout' = None /\ builder' = NewBuilder
          /\ proc' = <<>> /\ log' = <<>>
          /\ UNCHANGED <<sresult, fs>>

(***************************************************************************)
(* The body of the loop for a line that was read, up to the call of        *)
(* execute_pipeline.                                                       *)
(***************************************************************************)
\* A parse error that goes unreported.
ParseDiagSilent(r) == <<>>

ParseDiag(r) == <<ParseDiagEvent(r.err)>>

\* A built-in test that looks at the first stage of any pipeline.
IsBuiltinLineAnyLength(cs) == cs[1].name \in BuiltinWords

IsBuiltinLine(cs) == Len(cs) = 1 /\ cs[1].name \in BuiltinWords

\* A shell that gives up when the directory cannot be changed.
AfterChdirFatal(ok) == IF ok THEN "read" ELSE "stopped"

AfterChdir(ok) == "read"

\* The "cd" arm.
ChangeDir(c) ==
    IF Len(c.args) = 0 THEN <<CdDiagEvent("missing operand")>>
    ELSE IF Len(c.args) > 1 THEN <<CdDiagEvent("too many arguments")>>
    ELSE IF CanChdir(c.args[1]) THEN <<ChdirEvent(c.args[1])>>
    ELSE <<CdDiagEvent(c.args[1])>>

ChangeDirOk(c) == Len(c.args) = 1 /\ CanChdir(c.args[1])

Builtin(c, history) ==
    /\ UNCHANGED evars
    /\ CASE c.name = ExitWord ->
              /\ out' = history \o <<ExitEvent>>
              /\ mpc' = "stopped"
         [] c.name = CdWord ->
              /\ out' = history \o ChangeDir(c)
              /\ mpc' = AfterChdir(ChangeDirOk(c))
         [] c.name = PwdWord ->
              /\ \E ok \in BOOLEAN :
                    out' = history \o <<IF ok THEN PwdEvent ELSE PwdDiagEvent>>
              /\ mpc' = "read"

Execute(cs) ==
    /\ cmds' = cs
    /\ pc' = "stdin"
    /\ i' = 0
    /\ children' = <<>>
    /\ previous_command_stdout' = None
    /\ builder' = NewBuilder
    /\ proc' = [j \in 0..(Len(cs) - 1) |-> NoProcess]
    /\ log' = <<>>
    /\ mpc' = "exec"
    /\ UNCHANGED fs

Enter ==
    /\ mpc = "read"
    /\ Pending
    /\ FsInBounds
    /\ UNCHANGED <<words, sresult>>
    /\ \E l \in MainLayouts :
          /\ l = "padded" => Len(words) <= MaxPaddedWords
          /\ layout' = l
          /\ LET command_line == Trim(LineOf(words, l))
                 r == parse_pipeline_commands(command_line)
                 history == <<HistoryEvent(command_line)>>
             IN
             IF command_line = <<>>
             THEN UNCHANGED <<presult, mpc, out, evars>>
             ELSE /\ presult' = r
                  /\ IF ~r.ok
                     THEN /\ out' = history \o ParseDiag(r)
                          /\ UNCHANGED <<mpc, evars>>
                     ELSE IF IsBuiltinLine(r.cmds)
                     THEN Builtin(r.cmds[1], history)
                     ELSE /\ out' = history
                          /\ Execute(r.cmds)

(***************************************************************************)
(* execute_pipeline has returned: the loop goes to its next iteration.     *)
(***************************************************************************)
Resume ==
    /\ mpc = "exec"
    /\ pc = "done"
    /\ mpc' = "read"
    /\ UNCHANGED <<words, layout, presult, sresult, out, evars>>

MainInit ==
    /\ words = <<>>
    /\ layout = "single"
    /\ presult = NoResult
    /\ sresult = NoSingle
    /\ mpc = "read"
    /\ out = <<>>
    /\ EIdle
    /\ fs \in InitialFs

MainNext ==
    \/ TypeFill
    \/ TypeOp
    \/ TypePipe
    \/ TypeBuiltin
    \/ ReadFail
    \/ Enter
    \/ WireStdin
    \/ WireStdout
    \/ WireStderr
    \/ SpawnStage
    \/ WaitChild
    \/ Return
    \/ ChildExit
    \/ Resume

MainSpec == MainInit /\ [][MainNext]_vars

(***************************************************************************)
(* The loop under fair scheduling: main and execute_pipeline are           *)
(* sequential code, and every program that was spawned ends at some time.  *)
(* Nothing is asked of the user: a line may never be typed or entered.     *)
(***************************************************************************)
LiveMainSpec ==
    MainSpec /\ WF_vars(ExecStep) /\ WF_vars(ChildExit) /\ WF_vars(Resume)

(***************************************************************************)
(*                      Properties of the executor                         *)
(***************************************************************************)
LogIdx == 1..Len(log)
IsFailure(e) == e.ev \in {"open", "spawn"} /\ ~e.ok
Aborted == \E k \in LogIdx : IsFailure(log[k])
Spawned(j) == proc[j].state # "none"
Alive(j) == proc[j].state = "running"
Touched(j) == \E k \in LogIdx : log[k].stage = j /\ log[k].ev \in {"open", "spawn"}
KillsOf(j) == {k \in LogIdx : log[k] = KillEvent(j)}
OpensOf(j, stream) ==
    {k \in LogIdx : log[k].ev = "open" /\ log[k].stage = j /\ log[k].stream = stream}

\* C1: when an open of stdin, stdout or stderr, or the spawn, fails for stage
\* f, a kill is issued (after the failure) to every stage 0..f-1, which are the
\* stages spawned so far, and no later stage f+1..n-1 is ever attempted: none
\* of its files is opened and no process is spawned for it.
C1_AbortKillsAndStops ==
    pc # "idle" =>
    \A k \in LogIdx :
        IsFailure(log[k]) =>
            LET f == log[k].stage IN
            /\ \A j \in 0..(f - 1) :
                  /\ Spawned(j)
                  /\ \E m \in KillsOf(j) : m > k
            /\ ~Spawned(f)
            /\ \A j \in (f + 1)..(N - 1) : ~Spawned(j) /\ ~Touched(j)
            /\ \A m \in LogIdx : m > k => log[m].ev \in {"diag", "kill"}

C1_Witness ==
    /\ pc = "done"
    /\ N = 3
    /\ \E k \in LogIdx : IsFailure(log[k]) /\ log[k].stage = 1
    /\ KillsOf(0) # {}

\* C2: once execute_pipeline has returned, either all n stages were spawned or
\* no process spawned by the call is still running.
C2_AllOrNothing ==
    pc = "done" =>
        \/ \A j \in Stages : Spawned(j)
        \/ \A j \in Stages : ~Alive(j)

C2_Witness ==
    /\ pc = "done"
    /\ N = 3
    /\ proc[0].state = "killed"
    /\ proc[1].state = "killed"
    /\ ~Spawned(2)

\* C3 as stated: with three stages and an output redirect of the second stage
\* that cannot be opened for writing, the call aborts the pipeline and the
\* first stage's process is killed.
MiddleRedirectUnwritable ==
    /\ N = 3
    /\ Cmd(1).stdout_redirect # None
    /\ ~CanWrite(Unwrap(Cmd(1).stdout_redirect)[1])

C3_Original ==
    (pc = "done" /\ MiddleRedirectUnwritable) =>
        /\ Aborted
        /\ \A j \in Stages : ~Alive(j)
        /\ Spawned(0) => KillsOf(0) # {}

\* C3 as amended: with three stages and an output redirect of the second stage
\* that cannot be opened for writing, that path is never opened (the second
\* stage is not the last one: its output is a pipe) and no failure is reported
\* for it; after the call has returned no process of the pipeline is running:
\* when all three stages were spawned each was waited for and none was killed,
\* and otherwise (some other open or spawn failed) every spawned one was sent
\* a kill.
C3_MiddleRedirectIgnored ==
    (pc # "idle" /\ MiddleRedirectUnwritable) =>
        /\ OpensOf(1, "stdout") = {}
        /\ \A k \in LogIdx : log[k].ev = "diag" =>
              ~(log[k].stage = 1 /\ log[k].stream = "stdout")
        /\ Spawned(1) => proc[1].stdout = <<"piped">>
        /\ pc = "done" =>
              /\ \A j \in Stages : ~Alive(j)
              /\ IF \A j \in Stages : Spawned(j)
                 THEN /\ ~Aborted
                      /\ \A j \in Stages : proc[j].state = "reaped" /\ KillsOf(j) = {}
                 ELSE /\ Aborted
                      /\ \A j \in Stages : Spawned(j) => KillsOf(j) # {}

C3_Witness ==
    /\ pc = "done"
    /\ MiddleRedirectUnwritable
    /\ \A j \in Stages : proc[j].state = "reaped"

\* C4: a spawned stage that is not the last one has a pipe as its stdout, which
\* is the pending input handle when the next stage is wired and the stdin of
\* the next stage once that is spawned, and its stdout_redirect is never
\* opened; the only output file ever opened is the last stage's
\* stdout_redirect, and a last stage without one inherits the shell's stdout.
C4_OutputWiring ==
    pc # "idle" =>
    /\ \A j \in Stages :
          Spawned(j) =>
             IF j < N - 1
             THEN /\ proc[j].stdout = <<"piped">>
                  /\ Spawned(j + 1) => proc[j + 1].stdin = <<"pipe", j>>
             ELSE IF Cmd(j).stdout_redirect = None
                  THEN proc[j].stdout = <<"inherit">>
                  ELSE proc[j].stdout =
                          <<"file", Unwrap(Cmd(j).stdout_redirect)[1],
                            OpenMode(Unwrap(Cmd(j).stdout_redirect)[2])>>
    /\ (pc = "stdin" /\ i > 0) => previous_command_stdout = Some(i - 1)
    /\ \A k \in LogIdx :
          (log[k].ev = "open" /\ log[k].stream = "stdout") =>
              /\ log[k].stage = N - 1
              /\ Cmd(N - 1).stdout_redirect # None
              /\ log[k].subject = Unwrap(Cmd(N - 1).stdout_redirect)[1]
    /\ \A j \in Stages : j < N - 1 => OpensOf(j, "stdout") = {}

C4_Witness ==
    /\ pc = "done"
    /\ N = 3
    /\ Cmd(0).stdout_redirect # None
    /\ Cmd(2).stdout_redirect # None
    /\ \A j \in Stages : proc[j].state = "reaped"
    /\ OpensOf(2, "stdout") # {}

\* C5: a spawned stage other than the first has the pipe of the stage before
\* it as its stdin, whatever its own stdin_redirect says; the only input file
\* ever opened is the first stage's stdin_redirect, opened for reading.
C5_InputWiring ==
    pc # "idle" =>
    /\ \A j \in Stages :
          (j > 0 /\ Spawned(j)) =>
              /\ proc[j].stdin = <<"pipe", j - 1>>
              /\ proc[j - 1].stdout = <<"piped">>
    /\ \A k \in LogIdx :
          (log[k].ev = "open" /\ log[k].stream = "stdin") =>
              /\ log[k].stage = 0
              /\ log[k].mode = "read"
              /\ Cmd(0).stdin_redirect = Some(log[k].subject)
    /\ \A k \in LogIdx : log[k].ev = "open" /\ log[k].mode = "read" =>
          log[k].stream = "stdin"

C5_Witness ==
    /\ pc = "done"
    /\ N = 2
    /\ Cmd(0).stdin_redirect # None
    /\ Cmd(1).stdin_redirect # None
    /\ proc[1].state = "reaped"
    /\ OpensOf(0, "stdin") # {}

(***************************************************************************)
(*                       Properties of the parser                          *)
(*                                                                         *)
(* The tokens and segments of a line are read off the words it was built   *)
(* from, not computed by the parser's own splitting: words laid out with   *)
(* spaces between them are the tokens, and words laid out with nothing     *)
(* between them form one token.                                            *)
(***************************************************************************)
TokensOf(ws, l) ==
    IF l = "tight" THEN (IF ws = <<>> THEN <<>> ELSE <<Join(ws, <<>>)>>) ELSE ws

\* The tokens parse_single_command sees in the whole line ('|' is an
\* ordinary token for it, unless the line is laid out tight).
T == TokensOf(words, layout)

\* Position k holds a redirection operator that is scanned as one: a reserved
\* token after the name that is not the target of the operator before it.
RECURSIVE IsOpAt(_, _)
IsOpAt(ts, k) ==
    /\ 2 <= k
    /\ k <= Len(ts)
    /\ ts[k] \in RedirOps
    /\ ~IsOpAt(ts, k - 1)

OpPositions(ts) == {k \in 2..Len(ts) : IsOpAt(ts, k)}
TargetPositions(ts) == {k \in 3..Len(ts) : IsOpAt(ts, k - 1)}
ArgPositions(ts) == (2..Len(ts)) \ (OpPositions(ts) \cup TargetPositions(ts))
LacksTarget(ts) == ts # <<>> /\ IsOpAt(ts, Len(ts))

RECURSIVE PickFrom(_, _, _)
PickFrom(ts, k, positions) ==
    IF k > Len(ts) THEN <<>>
    ELSE (IF k \in positions THEN <<ts[k]>> ELSE <<>>) \o PickFrom(ts, k + 1, positions)

Max(S) == CHOOSE x \in S : \A y \in S : y <= x
Min(S) == CHOOSE x \in S : \A y \in S : x <= y

\* The positions where one of the operators `ops` is scanned as an operator.
PositionsOf(ts, ops) == {k \in OpPositions(ts) : ts[k] \in ops}

\* What the last operator among `ops` records, None if there is none.
LastOf(ts, ops) ==
    IF PositionsOf(ts, ops) = {} THEN None
    ELSE Some(Max(PositionsOf(ts, ops)))

StdoutOps == {OpOut, OpAppend}

\* The operators that write the same field as op.
SlotOps(op) == IF op \in StdoutOps THEN StdoutOps ELSE {op}

\* The field an operator writes, and what one occurrence at k records in it.
SlotOf(c, op) ==
    CASE op = OpIn -> c.stdin_redirect
      [] op \in StdoutOps -> c.stdout_redirect
      [] op = OpErr -> c.stderr_redirect

RecordedBy(ts, k) ==
    IF ts[k] \in StdoutOps THEN Some(<<ts[k + 1], ts[k] = OpAppend>>)
    ELSE Some(ts[k + 1])

\* C6 as stated: for each of the four operators, when it occurs several times
\* (as an operator) in a segment that parses, the redirect recorded is the one
\* of its last occurrence.
C6_Original ==
    sresult.ok =>
        \A op \in RedirOps :
            Cardinality(PositionsOf(T, {op})) >= 2 =>
                SlotOf(sresult.cmd, op) = RecordedBy(T, Max(PositionsOf(T, {op})))

\* C6 as amended: last-write-wins holds per redirect field, not per operator.
\* In a segment that parses, stdin_redirect is the path after the last `<`,
\* stderr_redirect the path after the last `2>`, and stdout_redirect the path
\* after the last operator among `>` and `>>` together, with append = true
\* exactly when that last one is `>>`; a field no operator writes is None.
\* (Operators are counted where they are scanned as operators.)
C6_LastWritePerField ==
    sresult.ok =>
        \A ops \in {{OpIn}, StdoutOps, {OpErr}} :
            \A op \in ops :
                SlotOf(sresult.cmd, op) =
                    IF PositionsOf(T, ops) = {} THEN None
                    ELSE RecordedBy(T, Max(PositionsOf(T, ops)))

C6_Witness ==
    /\ layout = "single"
    /\ words = <<<<"a">>, OpOut, <<"a">>, OpOut, <<"b">>, OpAppend, <<"a">>>>
    /\ sresult.ok
    /\ sresult.cmd.stdout_redirect = Some(<< <<"a">>, TRUE >>)

\* C7 as stated: in every segment, a reserved operator token with no token
\* after it makes parse_single_command fail with that operator's
\* missing-target error.
C7_Original ==
    (T # <<>> /\ T[Len(T)] \in RedirOps) =>
        sresult = ErrCommand(ErrMissingTarget(T[Len(T)]))

\* C7 as amended: a reserved operator token with no token after it makes
\* parse_single_command fail with that operator's missing-target error when
\* it is scanned as an operator, that is when it is neither the first token
\* (which is taken as the name) nor the target of the operator before it
\* (which is taken as that operator's path); in a segment that parses no
\* reserved token scanned as an operator is left out or kept in args: each has
\* its target, and args holds no reserved token.
C7_MissingTarget ==
    /\ LacksTarget(T) => sresult = ErrCommand(ErrMissingTarget(T[Len(T)]))
    /\ (T # <<>> /\ ~LacksTarget(T)) => sresult.ok
    /\ sresult.ok =>
          /\ \A k \in OpPositions(T) : k + 1 <= Len(T)
          /\ \A k \in 1..Len(sresult.cmd.args) : sresult.cmd.args[k] \notin RedirOps
          /\ \A op \in RedirOps :
                PositionsOf(T, {op}) # {} => SlotOf(sresult.cmd, op) # None

C7_Witness ==
    /\ layout = "single"
    /\ words = <<<<"a">>, OpOut, <<"b">>, OpErr>>
    /\ sresult = ErrCommand(ErrMissingTarget(OpErr))

\* The '|'-separated segments of the line, as lists of words.
RECURSIVE WordSegments(_)
WordSegments(ws) ==
    IF \E k \in 1..Len(ws) : ws[k] = PipeWord
    THEN LET bar == Min({k \in 1..Len(ws) : ws[k] = PipeWord}) IN
         <<SubSeq(ws, 1, bar - 1)>> \o WordSegments(SubSeq(ws, bar + 1, Len(ws)))
    ELSE <<ws>>

Segs == WordSegments(words)
SegTokens(k) == TokensOf(Segs[k], layout)
EmptySegs == {k \in 1..Len(Segs) : Segs[k] = <<>>}
FaultySegs == {k \in 1..Len(Segs) : Segs[k] = <<>> \/ LacksTarget(SegTokens(k))}

\* One command per segment, in segment order, each with a non-empty name.
OneCommandPerSegment ==
    /\ Len(presult.cmds) = Len(Segs)
    /\ Len(presult.cmds) >= 1
    /\ \A k \in 1..Len(Segs) :
          /\ presult.cmds[k].name = SegTokens(k)[1]
          /\ presult.cmds[k].name # <<>>
          /\ presult.cmds[k].args = PickFrom(SegTokens(k), 2, ArgPositions(SegTokens(k)))

\* C8 as stated: parse_pipeline fails with the empty-pipeline-stage error
\* whenever a segment is empty or whitespace-only, and a successful parse
\* returns one command per segment, in order, each with a non-empty name.
C8_Original ==
    /\ EmptySegs # {} => presult = ErrPipeline(ErrEmptyStage)
    /\ presult.ok => OneCommandPerSegment

\* C8 as amended: parse_pipeline fails whenever a segment is empty or
\* whitespace-only; the error is the one of the first faulty segment from the
\* left: the empty-pipeline-stage error when that segment is an empty one, and
\* the missing-target error of an earlier segment that ends in a redirection
\* operator otherwise.  A successful parse returns one command per segment, in
\* segment order, each with a non-empty name.
C8_PipelineStages ==
    /\ EmptySegs # {} => ~presult.ok /\ presult.cmds = <<>>
    /\ presult.ok <=> FaultySegs = {}
    /\ ~presult.ok =>
          LET f == Min(FaultySegs) IN
          presult.err = IF Segs[f] = <<>> THEN ErrEmptyStage
                        ELSE ErrMissingTarget(SegTokens(f)[Len(SegTokens(f))])
    /\ presult.ok => OneCommandPerSegment

C8_Witness ==
    /\ layout = "single"
    /\ words = <<<<"a">>, OpOut, PipeWord, PipeWord, <<"b">>>>
    /\ presult = ErrPipeline(ErrMissingTarget(OpOut))

\* C9: in a segment that parses, the first token is the name and every token
\* after it is either one half of exactly one (operator, path) pair or an
\* element of args; args is the list of the tokens outside the pairs in their
\* input order, and every redirect recorded is the path of one of the pairs.
C9_TokenPartition ==
    sresult.ok =>
        /\ sresult.cmd.name = T[1]
        /\ sresult.cmd.args = PickFrom(T, 2, ArgPositions(T))
        /\ 1 + Len(sresult.cmd.args) + 2 * Cardinality(OpPositions(T)) = Len(T)
        /\ \A k \in OpPositions(T) : k + 1 \in TargetPositions(T)
        /\ \A op \in RedirOps :
              SlotOf(sresult.cmd, op) # None =>
                  \E k \in PositionsOf(T, SlotOps(op)) :
                      SlotOf(sresult.cmd, op) = RecordedBy(T, k)

C9_Witness ==
    /\ layout = "single"
    /\ words = <<<<"a">>, <<"b">>, OpIn, <<"b">>, <<"a">>, OpErr, <<"a">>>>
    /\ sresult.ok
    /\ sresult.cmd.args = << <<"b">>, <<"a">> >>

NoPipe == \A k \in 1..Len(words) : words[k] # PipeWord

\* C10 as stated, on the lines that are not blank: for an input without '|',
\* parse_pipeline yields exactly one ParsedCommand, the one
\* parse_single_command yields.
C10_Original ==
    (NoPipe /\ words # <<>>) =>
        /\ presult.ok
        /\ sresult.ok
        /\ presult.cmds = <<sresult.cmd>>

\* C10 as amended: for an input without '|' that parse_single_command parses,
\* parse_pipeline yields exactly one ParsedCommand, equal to it; when
\* parse_single_command fails for a missing redirect target, parse_pipeline
\* fails with the same error; on an empty or whitespace-only input both fail,
\* parse_pipeline with the empty-pipeline-stage error and
\* parse_single_command with the empty-command error.
C10_SingleSegment ==
    NoPipe =>
        /\ sresult.ok => presult = OkPipeline(<<sresult.cmd>>)
        /\ (~sresult.ok /\ T # <<>>) =>
              /\ presult = ErrPipeline(sresult.err)
              /\ sresult.err = ErrMissingTarget(T[Len(T)])
        /\ T = <<>> =>
              /\ sresult = ErrCommand(ErrEmptyCommand)
              /\ presult = ErrPipeline(ErrEmptyStage)

C10_Witness ==
    /\ layout = "padded"
    /\ words = <<<<"a">>, <<"b">>, OpAppend, <<"a">>>>
    /\ sresult.ok
    /\ presult = OkPipeline(<<sresult.cmd>>)
    /\ sresult.cmd.stdout_redirect = Some(<< <<"a">>, TRUE >>)

(***************************************************************************)
(*                 Properties of the executor: waiting                     *)
(***************************************************************************)
AllSpawned == \A j \in Stages : Spawned(j)
WaitsOf(j) == {k \in LogIdx : log[k] = WaitEvent(j)}

C11_WaitsForAll ==
    pc = "done" /\ AllSpawned =>
        \A j \in Stages : proc[j].state = "reaped" /\ Cardinality(WaitsOf(j)) = 1

C11_WaitStep ==
    /\ \A j \in DOMAIN proc :
          (pc = "wait" /\ proc[j].state # "reaped" /\ proc'[j].state = "reaped")
              => proc[j].state = "exited"
    /\ (pc = "wait" /\ pc' = "done") => \A j \in DOMAIN proc : ~Alive(j)
    /\ (pc = "wait" /\ \E j \in DOMAIN proc :
                          /\ Alive(j)
                          /\ \E k \in 1..Len(children) : children[k] = j)
          => pc' = "wait"

\* C11: when all n stages were spawned, execute_pipeline returns only after
\* every one of the n processes has exited and has been waited for (a wait
\* completes only on a process that has exited, and no step leaves the wait
\* phase while a process still held in `children` runs, so a process that
\* never exits keeps the call from returning); and a call that is under way
\* returns, given that every spawned process ends at some time, in whatever
\* order the processes end.
C11_CompletionWaiting ==
    /\ []C11_WaitsForAll
    /\ [][C11_WaitStep]_vars
    /\ ((pc \in {"stdin", "stdout", "stderr", "spawn", "wait"}) ~> (pc = "done"))

\* The call is blocked on the first process while the last one has ended.
C11_Witness ==
    /\ pc = "wait"
    /\ N = 3
    /\ AllSpawned
    /\ children = <<0, 1, 2>>
    /\ proc[0].state = "running"
    /\ proc[2].state = "exited"

(***************************************************************************)
(*                  Properties of the interpreter loop                     *)
(***************************************************************************)
Processed == presult # NoResult
ParsedOk == Processed /\ presult.ok
ParseFailed == Processed /\ ~presult.ok
StageNames == {presult.cmds[k].name : k \in 1..Len(presult.cmds)}
SingleBuiltin == ParsedOk /\ Len(presult.cmds) = 1 /\ StageNames \subseteq BuiltinWords
BuiltinInPipeline ==
    ParsedOk /\ Len(presult.cmds) >= 2 /\ StageNames \cap BuiltinWords # {}
NotCalled ==
    /\ pc = "idle"
    /\ cmds = <<>>
    /\ proc = <<>>
    /\ log = <<>>
SpawnsOf(j) == {k \in LogIdx : log[k].ev = "spawn" /\ log[k].stage = j}

C12_State ==
    /\ SingleBuiltin => NotCalled
    /\ BuiltinInPipeline =>
          /\ pc # "idle"
          /\ mpc # "stopped"
          /\ cmds = presult.cmds
          /\ out = <<HistoryEvent(Trim(Line))>>
          /\ \A j \in Stages :
                /\ \A k \in SpawnsOf(j) : log[k].subject = Cmd(j).name
                /\ Spawned(j) => SpawnsOf(j) # {}
                /\ (pc = "done" /\ ~Aborted) => proc[j].state = "reaped"
                /\ ((pc = "stdin" /\ i > j) \/ (pc \in {"wait", "done"} /\ ~Aborted))
                      => \E k \in SpawnsOf(j) : log[k].ok

C12_Step ==
    SingleBuiltin' => (fs' = fs /\ NotCalled')

\* C12: for a line that parses to exactly one stage named exit, cd or pwd,
\* execute_pipeline is not called (no file is opened or changed, no process
\* is spawned); for a line that parses to two or more stages one of which is
\* named exit, cd or pwd, execute_pipeline is called with the whole pipeline,
\* main does nothing built-in for it, and every stage the call gets to spawn,
\* the ones with these names included, is spawned under its own name as an
\* external program.
C12_BuiltinInterception ==
    /\ []C12_State
    /\ [][C12_Step]_vars

\* `a | exit` has run: the stage named exit was spawned and waited for.
C12_Witness ==
    /\ BuiltinInPipeline
    /\ pc = "done"
    /\ N = 2
    /\ Cmd(1).name = ExitWord
    /\ proc[1].state = "reaped"
    /\ \E k \in SpawnsOf(1) : log[k] = SpawnEvent(1, ExitWord, TRUE)

C13_State ==
    ParseFailed =>
        /\ NotCalled
        /\ mpc = "read"
        /\ out = <<HistoryEvent(Trim(Line)), ParseDiagEvent(presult.err)>>
        /\ presult.err \in {ErrEmptyStage, ErrEmptyCommand}
                             \cup {ErrMissingTarget(op) : op \in RedirOps}
        /\ presult.cmds = <<>>

C13_Step ==
    ParseFailed' => (fs' = fs /\ NotCalled')

\* C13: for a line that fails to parse, in whichever segment, execute_pipeline
\* is not called: no file is opened, created or emptied, no process is
\* spawned, also for the well-formed segments before the faulty one; main
\* prints the parse error and is back at reading the next line.
C13_ParseErrorAbandonsLine ==
    /\ []C13_State
    /\ [][C13_Step]_vars

\* `a > a |` was entered while the file a held a record: it still holds it.
C13_Witness ==
    /\ ParseFailed
    /\ words = << <<"a">>, OpOut, <<"a">>, PipeWord >>
    /\ presult.err = ErrEmptyStage
    /\ fs = OldFiles
    /\ mpc = "read"

LastOut == out[Len(out)]
StoppedByReader == out # <<>> /\ LastOut \in {ReadErrorEvent(e) : e \in ReadErrors}
StoppedByExit ==
    /\ out # <<>>
    /\ LastOut = ExitEvent
    /\ ParsedOk
    /\ Len(presult.cmds) = 1
    /\ presult.cmds[1].name = ExitWord
BuiltinError ==
    /\ out # <<>>
    /\ LastOut.ev \in {"cd error", "pwd error"}

C14_State ==
    /\ mpc = "stopped" => (StoppedByReader \/ StoppedByExit)
    /\ ParseFailed => mpc = "read"
    /\ BuiltinError => mpc = "read"
    /\ (SingleBuiltin /\ presult.cmds[1].name # ExitWord) => mpc = "read"
    /\ mpc = "exec" => pc \in {"stdin", "stdout", "stderr", "spawn", "wait", "done"}
    /\ pc \in {"stdin", "stdout", "stderr", "spawn", "wait"} => mpc = "exec"

C14_Step ==
    /\ mpc = "exec" => mpc' \in {"exec", "read"}
    /\ (mpc = "exec" /\ pc = "done") => (mpc' = "read" /\ pc' = "done")
    /\ mpc = "stopped" => mpc' = "stopped"

\* C14: the loop of main stops only when readline returns an error
\* (interrupt, end of input, read failure) or a line made of the single stage
\* `exit` is entered; after a parse error and after cd or pwd, failed or not,
\* main is back at readline; while a pipeline runs main is inside
\* execute_pipeline, and once that has returned, after a full launch or an
\* abort alike, its only step is back to readline, which it reaches whenever
\* the spawned programs end.
C14_LoopSurvives ==
    /\ []C14_State
    /\ [][C14_Step]_vars
    /\ ((mpc = "exec") ~> (mpc = "read"))

\* An aborted pipeline (`a | b`: b cannot be spawned) is behind, main reads.
C14_Witness ==
    /\ mpc = "read"
    /\ pc = "done"
    /\ N = 2
    /\ Aborted
    /\ KillsOf(0) # {}

(***************************************************************************)
(*            Properties of the executor: files and handles                *)
(***************************************************************************)
LastCmd == Cmd(N - 1)
HasOutRedirect == pc # "idle" /\ LastCmd.stdout_redirect # None
OutPath == Unwrap(LastCmd.stdout_redirect)[1]
OutAppend == Unwrap(LastCmd.stdout_redirect)[2]
ContentOf(f, p) == IF p \in DOMAIN f THEN f[p] ELSE <<>>
IsPrefix(s, t) == Len(s) <= Len(t) /\ SubSeq(t, 1, Len(s)) = s
OutOpened == \E k \in OpensOf(N - 1, "stdout") : log[k].ok
OutOpenStep == pc = "stdout" /\ i = N - 1 /\ HasOutRedirect /\ pc' = "stderr"
OutWriteStep ==
    /\ HasOutRedirect
    /\ proc[N - 1].state = "running"
    /\ proc'[N - 1].state = "exited"
SameErrOpenStep ==
    /\ pc = "stderr"
    /\ i = N - 1
    /\ HasOutRedirect
    /\ LastCmd.stderr_redirect = Some(OutPath)
    /\ pc' = "spawn"

C15_Truncated ==
    (pc = "done" /\ AllSpawned /\ HasOutRedirect /\ ~OutAppend) =>
        fs[OutPath] = <<Output(LastCmd)>>

C15_OpenAndWrite ==
    /\ OutOpenStep =>
          /\ OutPath \in DOMAIN fs'
          /\ fs'[OutPath] = IF OutAppend THEN ContentOf(fs, OutPath) ELSE <<>>
          /\ \A p \in DOMAIN fs \ {OutPath} : p \in DOMAIN fs' /\ fs'[p] = fs[p]
    /\ OutWriteStep =>
          fs'[OutPath] = IF OutAppend THEN fs[OutPath] \o <<Output(LastCmd)>>
                         ELSE <<Output(LastCmd)>>

C15_Kept == (HasOutRedirect /\ OutAppend /\ OutOpened) => IsPrefix(fs[OutPath], fs'[OutPath])

ReachedErrWiring(j) ==
    \/ i > j
    \/ i = j /\ pc = "spawn"
    \/ \E k \in LogIdx : log[k].stage = j /\ log[k].ev = "spawn"
    \/ OpensOf(j, "stderr") # {}
ErrPath(j) == Unwrap(Cmd(j).stderr_redirect)

C16_State ==
    pc # "idle" =>
    \A j \in Stages :
        /\ (ReachedErrWiring(j) /\ Cmd(j).stderr_redirect # None) =>
              /\ Cardinality(OpensOf(j, "stderr")) = 1
              /\ \A k \in OpensOf(j, "stderr") :
                    /\ log[k].subject = ErrPath(j)
                    /\ log[k].mode = "truncate"
                    /\ log[k].ok = CanWrite(ErrPath(j))
                    /\ log[k].ok => ErrPath(j) \in DOMAIN fs
                    /\ ~log[k].ok =>
                          /\ Aborted
                          /\ ~Spawned(j)
                          /\ pc \in {"wait", "done"}
                          /\ k < Len(log) /\ log[k + 1] = DiagEvent(j, "stderr", ErrPath(j))
              /\ Spawned(j) => proc[j].stderr = <<"file", ErrPath(j), "truncate">>
        /\ Cmd(j).stderr_redirect = None =>
              /\ OpensOf(j, "stderr") = {}
              /\ Spawned(j) => proc[j].stderr = <<"inherit">>

C16_EmptiesStep ==
    (pc = "stderr" /\ pc' = "spawn" /\ Cmd(i).stderr_redirect # None) =>
        /\ ErrPath(i) \in DOMAIN fs'
        /\ fs'[ErrPath(i)] = <<>>

\* C16: every stage that got through its error wiring, whether first, middle
\* or last, has its stderr_redirect path opened exactly once, truncate-create
\* (the file exists and the open emptied it), and a spawned one has that file
\* as its stderr; a stage without stderr_redirect opens nothing for stderr and
\* inherits the shell's; when the path cannot be opened the stage is not
\* spawned and the pipeline is aborted.
C16_ErrorWiring ==
    /\ []C16_State
    /\ [][C16_EmptiesStep]_vars

\* Three stages ran to the end; the first and the middle one had an error
\* file, the last one none.
C16_Witness ==
    /\ pc = "done"
    /\ N = 3
    /\ Cmd(0).stderr_redirect # None
    /\ Cmd(1).stderr_redirect # None
    /\ Cmd(2).stderr_redirect = None
    /\ \A j \in Stages : proc[j].state = "reaped"
    /\ proc[1].stderr = <<"file", ErrPath(1), "truncate">>
    /\ proc[2].stderr = <<"inherit">>

(***************************************************************************)
(*          Properties of the executor: cleanup and diagnostics            *)
(***************************************************************************)
\* C17: a wait is issued only in a call in which all n stages were spawned,
\* and then once for each of them before the call returns; in a call that is
\* aborted every stage spawned before the failure is sent exactly one kill
\* and no other stage any, `children` is empty from the abort on, no wait is
\* ever issued, and so no process of the call is reaped by it.
C17_WaitIffAllSpawned ==
    pc # "idle" =>
    /\ \A j \in Stages : WaitsOf(j) # {} => (AllSpawned /\ ~Aborted)
    /\ (pc = "done" /\ AllSpawned) =>
          (~Aborted /\ \A j \in Stages : Cardinality(WaitsOf(j)) = 1)
    /\ Aborted =>
          /\ ~AllSpawned
          /\ pc \in {"wait", "done"}
          /\ children = <<>>
          /\ \A j \in Stages :
                /\ WaitsOf(j) = {}
                /\ proc[j].state # "reaped"
                /\ Cardinality(KillsOf(j)) = IF Spawned(j) THEN 1 ELSE 0

\* The third stage failed: the first process had ended by itself, the second
\* was killed; the call returned and neither was waited for.
C17_Witness ==
    /\ pc = "done"
    /\ N = 3
    /\ Aborted
    /\ proc[0].state = "exited"
    /\ proc[1].state = "killed"
    /\ Cardinality(KillsOf(0)) = 1
    /\ \A j \in Stages : WaitsOf(j) = {}

Rank(e) ==
    IF e.ev = "spawn" THEN 4
    ELSE CASE e.stream = "stdin" -> 1
           [] e.stream = "stdout" -> 2
           [] e.stream = "stderr" -> 3
Steps == {k \in LogIdx : log[k].ev \in {"open", "spawn"}}
FailedAt(j, what) ==
    \E k \in Steps : /\ log[k].stage = j
                     /\ ~log[k].ok
                     /\ (IF log[k].ev = "spawn" THEN "spawn" ELSE log[k].stream) = what

\* C18: the opens and the spawn of a call are made stage by stage, and within
\* a stage in the order stdin, stdout, stderr, spawn; when the last stage's
\* stderr open or its spawn fails, the file of its stdout_redirect exists (and
\* is empty if it was opened to truncate) and the stderr_redirect file of
\* every earlier stage exists and is empty, the abort having undone nothing,
\* while no process of the pipeline is running.
C18_OrderAndNoUndo ==
    pc # "idle" =>
    /\ \A k, m \in Steps :
          k < m =>
             \/ log[k].stage < log[m].stage
             \/ log[k].stage = log[m].stage /\ Rank(log[k]) < Rank(log[m])
    /\ (FailedAt(N - 1, "stderr") \/ FailedAt(N - 1, "spawn")) =>
          /\ LastCmd.stdout_redirect # None =>
                /\ OutOpened
                /\ OutPath \in DOMAIN fs
                /\ ~OutAppend => fs[OutPath] = <<>>
          /\ \A j \in 0..(N - 2) :
                Cmd(j).stderr_redirect # None =>
                    /\ ErrPath(j) \in DOMAIN fs
                    /\ fs[ErrPath(j)] = <<>>
          /\ \A j \in Stages : ~Alive(j)
          /\ ~Spawned(N - 1)

\* The first stage created or emptied the file a as its error file, then the
\* second, last stage could not be spawned: the file stays as the open left it.
C18_Witness ==
    /\ pc = "done"
    /\ N = 2
    /\ FailedAt(1, "spawn")
    /\ Cmd(0).stderr_redirect = Some(<<"a">>)
    /\ fs[<<"a">>] = <<>>
    /\ proc[0].state = "killed"
    /\ \E k \in OpensOf(0, "stderr") :
          log[k] = OpenEvent(0, "stderr", <<"a">>, "truncate", TRUE)

PipeOf(j) == <<"pipe", j>>
Holders(j) ==
    (IF previous_command_stdout = Some(j) THEN 1 ELSE 0)
    + (IF builder.stdin = PipeOf(j) THEN 1 ELSE 0)
    + Cardinality({k \in Stages : proc[k].stdin = PipeOf(j)})

C19_State ==
    pc # "idle" =>
    /\ previous_command_stdout \in {None} \cup {Some(j) : j \in Stages}
    /\ \A j \in Stages :
          /\ previous_command_stdout = Some(j) =>
                /\ pc = "stdin"
                /\ i = j + 1
                /\ proc[j].state # "none"
                /\ proc[j].stdout = <<"piped">>
          /\ Holders(j) <= 1
          /\ builder.stdin = PipeOf(j) => (i = j + 1 /\ pc \in {"stdout", "stderr", "spawn"})
          /\ \A k \in Stages : proc[k].stdin = PipeOf(j) => k = j + 1
          /\ (Spawned(j) /\ j > 0) => proc[j].stdin = PipeOf(j - 1)
    /\ pc \in {"wait", "done"} =>
          /\ previous_command_stdout = None
          /\ builder.stdin = <<"inherit">>

C19_Step ==
    \A j \in DOMAIN proc :
        /\ (previous_command_stdout # Some(j) /\ previous_command_stdout' = Some(j)) =>
              /\ pc = "spawn"
              /\ i = j
              /\ previous_command_stdout = None
              /\ proc[j].state = "none"
              /\ proc'[j].state = "running"
        /\ (previous_command_stdout = Some(j) /\ previous_command_stdout' # Some(j)) =>
              /\ pc = "stdin"
              /\ i = j + 1
              /\ previous_command_stdout' = None
              /\ builder'.stdin = PipeOf(j)

\* C19: the slot previous_command_stdout holds at most one handle, and only
\* between the spawn of a stage and the input wiring of the next; the read
\* end of stage j's stdout is put there once, by the spawn of stage j, and is
\* taken once, by the input wiring of stage j+1, which leaves the slot empty;
\* it is at any time in one place at most (the slot, the builder of stage
\* j+1, the process of stage j+1) and never the stdin of another stage; the
\* slot is empty, and the builder holds no pipe, whenever the call is in its
\* wait phase or has returned.
C19_SingleOwnerHandOff ==
    /\ []C19_State
    /\ [][C19_Step]_vars

\* Between the second and the third stage: the slot holds the second stage's
\* pipe, the first stage's pipe is the second stage's stdin.
C19_Witness ==
    /\ pc = "stdin"
    /\ N = 3
    /\ i = 2
    /\ previous_command_stdout = Some(1)
    /\ proc[1].stdin = PipeOf(0)
    /\ Holders(0) = 1
    /\ Holders(1) = 1

Diags == {k \in LogIdx : log[k].ev = "diag"}
Kills == {k \in LogIdx : log[k].ev = "kill"}
RedirectPath(c, stream) ==
    CASE stream = "stdin" -> Unwrap(c.stdin_redirect)
      [] stream = "stdout" -> Unwrap(c.stdout_redirect)[1]
      [] stream = "stderr" -> Unwrap(c.stderr_redirect)

\* C20: a call of execute_pipeline prints at most one diagnostic, and one
\* exactly when an open or a spawn has failed, which is when the pipeline is
\* aborted; it is printed right after the failure, for the failing stage,
\* with that stage's command name when the spawn failed and the path of the
\* redirect when an open failed, and before every kill of the cleanup.
C20_OneDiagnostic ==
    pc # "idle" =>
    /\ Cardinality(Diags) <= 1
    /\ Aborted <=> Cardinality(Diags) = 1
    /\ Cardinality({k \in LogIdx : IsFailure(log[k])}) <= 1
    /\ \A k \in LogIdx : IsFailure(log[k]) => (k < Len(log) /\ log[k + 1].ev = "diag")
    /\ \A k \in Diags :
          /\ k > 1
          /\ IsFailure(log[k - 1])
          /\ log[k].stage = log[k - 1].stage
          /\ IF log[k - 1].ev = "spawn"
             THEN log[k].subject = Cmd(log[k].stage).name
             ELSE /\ log[k].stream = log[k - 1].stream
                  /\ log[k].subject = RedirectPath(Cmd(log[k].stage), log[k].stream)
          /\ \A m \in Kills : m > k
    /\ (Kills # {}) => Diags # {}

\* The third stage could not be spawned: one line naming it, then the kills.
C20_Witness ==
    /\ pc = "done"
    /\ N = 3
    /\ \E k \in Diags :
          /\ log[k] = DiagEvent(2, "spawn", Cmd(2).name)
          /\ k + 2 = Len(log)
          /\ log[k + 1] = KillEvent(0)
          /\ log[k + 2] = KillEvent(1)

====
